---- MODULE Spec2Model ----
(***************************************************************************)
(* Leosac audit serialization: the polymorphic dispatcher                  *)
(* (PolymorphicAuditJSON), its runtime serializer registry (a              *)
(* boost::signals2 signal with a first-non-absent combiner) and the        *)
(* built-in group-event serializer (GroupEventJSON).                       *)
(***************************************************************************)
EXTENDS Integers, Sequences, FiniteSets, TLC

(* ------------------------------ bounds --------------------------------- *)

\* Most registrations ever made on runtime_serializers_.
MaxSlots == 2

\* Threads calling PolymorphicAuditJSON::serialize concurrently.
Threads == {"t1", "t2"}

(* --------------------------- JSON values ------------------------------- *)
\* nlohmann::json values, tagged by their value type.

JNull == [t |-> "null", v |-> <<>>]

JStr(s) == [t |-> "string", v |-> s]

JObj(f) == [t |-> "object", v |-> f]

JArr(q) == [t |-> "array", v |-> q]

EmptyObj == JObj([k \in {} |-> JNull])

is_string(j) == j.t = "string"

is_object(j) == j.t = "object"

is_array(j) == j.t = "array"

\* j.contains(key)
JHas(j, key) == is_object(j) /\ key \in DOMAIN j.v

\* j[key] read on a mutable json: a null becomes an object, a missing key
\* is created holding null.
JGet(j, key) == IF JHas(j, key) THEN j.v[key] ELSE JNull

\* j[key] = val
JSet(j, key, val) ==
    LET old == IF is_object(j) THEN j.v ELSE EmptyObj.v
    IN  JObj([k \in (DOMAIN old) \cup {key} |-> IF k = key THEN val ELSE old[k]])

\* j[k1][k2] = val
JSet2(j, k1, k2, val) == JSet(j, k1, JSet(JGet(j, k1), k2, val))

\* basic_json(initializer_list): the list is an object when every element
\* is a two-element array whose first element is a string, else an array.
JInit(elems) ==
    IF \A i \in 1..Len(elems) :
           /\ is_array(elems[i])
           /\ Len(elems[i].v) = 2
           /\ is_string(elems[i].v[1])
    THEN JObj([k \in {elems[i].v[1].v : i \in 1..Len(elems)} |->
                 (CHOOSE e \in {elems[i] : i \in 1..Len(elems)} : e.v[1].v = k).v[2]])
    ELSE JArr(elems)

(* ------------------------- event type model ---------------------------- *)

\* The capabilities HelperSerialize is a Tools::Visitor of.
BuiltinKinds ==
    {"UserEvent", "WSAPICall", "ScheduleEvent", "GroupEvent",
     "CredentialEvent", "DoorEvent", "UserGroupMembershipEvent"}

\* Module-defined audit entries, unknown to the core.
ExtensionKinds == {"ExtA", "ExtB"}

TargetIds == {"g1", "g2"}

Snapshots == {"a1", "a2"}

\* Audit entries handed to serialize().  Only group events expose
\* target_id(), before() and after() to the code modelled here.
GroupEvents ==
    [kind : {"GroupEvent"}, id : {"e1"}, target_id : TargetIds,
     before : Snapshots, after : Snapshots]

OtherEntries ==
    [kind : (BuiltinKinds \ {"GroupEvent"}) \cup ExtensionKinds, id : {"e1"},
     target_id : {"g1"}, before : {"a1"}, after : {"a1"}]

Entries == GroupEvents \cup OtherEntries

\* A security context is the set of actions it grants.
SecurityContexts == {{}, {"AUDIT_READ_FULL"}}

check_permission(sc, action) == action \in sc

(* --------------------- base and built-in serializers ------------------- *)

\* The provisional type written by the base serializer.
GenericType == "audit-entry"

\* AuditJSON::serialize: the common envelope.
AuditJSON_serialize(in, sc) ==
    JObj([k \in {"id", "type", "attributes", "relationships"} |->
            CASE k = "id" -> JStr(in.id)
              [] k = "type" -> JStr(GenericType)
              [] k = "attributes" -> JObj([a \in {"timestamp"} |-> JStr("ts")])
              [] k = "relationships" ->
                   JObj([r \in {"author"} |-> JObj([d \in {"id", "type"} |->
                          IF d = "id" THEN JStr("u1") ELSE JStr("user")])])])

\* The outcome of a failed ASSERT_LOG: the process halts, no json exists.
Halted == [t |-> "halted", v |-> <<>>]

\* The outcome of json::at on a missing key: json::out_of_range is thrown.
Threw == [t |-> "threw", v |-> <<>>]

\* The shapes of envelope the group-event serializer is examined on: what
\* the type member of the base serializer's result is.
TypeShapes ==
    {"string", "empty-string", "null", "number", "boolean", "array",
     "object", "missing"}

\* The base serializer's envelope with its type member of the given shape.
Envelope(shape, in, sc) ==
    LET base == AuditJSON_serialize(in, sc)
    IN  CASE shape = "string" -> base
          [] shape = "empty-string" -> JSet(base, "type", JStr(""))
          [] shape = "null" -> JSet(base, "type", JNull)
          [] shape = "number" -> JSet(base, "type", [t |-> "number", v |-> 0])
          [] shape = "boolean" -> JSet(base, "type", [t |-> "boolean", v |-> TRUE])
          [] shape = "array" -> JSet(base, "type", JArr(<<>>))
          [] shape = "object" -> JSet(base, "type", EmptyObj)
          [] shape = "missing" ->
               JObj([k \in (DOMAIN base.v) \ {"type"} |-> base.v[k]])

GroupEventJSON_augment_leakAfter(serialized, in, sc) ==
    IF ~ JHas(serialized, "type") THEN Threw
    ELSE IF ~ is_string(serialized.v["type"]) THEN Halted
    ELSE
      LET s1 == JSet(serialized, "type", JStr("audit-group-event"))
          s2 == JSet2(s1, "relationships", "target",
                      JInit(<< JInit(<< JInit(<< JStr("id"), JStr(in.target_id) >>),
                                        JInit(<< JStr("type"), JStr("group") >>) >>) >>))
          s3 == IF check_permission(sc, "AUDIT_READ_FULL")
                THEN JSet2(s2, "attributes", "before", JStr(in.before))
                ELSE s2
      IN  JSet2(s3, "attributes", "after", JStr(in.after))

GroupEventJSON_augment_unasserted(serialized, in, sc) ==
    IF ~ JHas(serialized, "type") THEN Threw
    ELSE
      LET s1 == JSet(serialized, "type", JStr("audit-group-event"))
          s2 == JSet2(s1, "relationships", "target",
                      JInit(<< JInit(<< JInit(<< JStr("id"), JStr(in.target_id) >>),
                                        JInit(<< JStr("type"), JStr("group") >>) >>) >>))
      IN  IF check_permission(sc, "AUDIT_READ_FULL")
          THEN JSet2(JSet2(s2, "attributes", "before", JStr(in.before)),
                     "attributes", "after", JStr(in.after))
          ELSE s2

GroupEventJSON_augment_unfiltered(serialized, in, sc) ==
    IF ~ JHas(serialized, "type") THEN Threw
    ELSE IF ~ is_string(serialized.v["type"]) THEN Halted
    ELSE
      LET s1 == JSet(serialized, "type", JStr("audit-group-event"))
          s2 == JSet2(s1, "relationships", "target",
                      JInit(<< JInit(<< JInit(<< JStr("id"), JStr(in.target_id) >>),
                                        JInit(<< JStr("type"), JStr("group") >>) >>) >>))
      IN  JSet2(JSet2(s2, "attributes", "before", JStr(in.before)),
                "attributes", "after", JStr(in.after))

GroupEventJSON_augment_typeKept(serialized, in, sc) ==
    IF ~ JHas(serialized, "type") THEN Threw
    ELSE IF ~ is_string(serialized.v["type"]) THEN Halted
    ELSE
      LET s2 == JSet2(serialized, "relationships", "target",
                      JInit(<< JInit(<< JInit(<< JStr("id"), JStr(in.target_id) >>),
                                        JInit(<< JStr("type"), JStr("group") >>) >>) >>))
      IN  IF check_permission(sc, "AUDIT_READ_FULL")
          THEN JSet2(JSet2(s2, "attributes", "before", JStr(in.before)),
                     "attributes", "after", JStr(in.after))
          ELSE s2

\* GroupEventJSON::serialize, from the envelope on.
GroupEventJSON_augment(serialized, in, sc) ==
    IF ~ JHas(serialized, "type") THEN Threw
    ELSE IF ~ is_string(serialized.v["type"]) THEN Halted
    ELSE
      LET s1 == JSet(serialized, "type", JStr("audit-group-event"))
          s2 == JSet2(s1, "relationships", "target",
                      JInit(<< JInit(<< JInit(<< JStr("id"), JStr(in.target_id) >>),
                                        JInit(<< JStr("type"), JStr("group") >>) >>) >>))
          s3 == IF check_permission(sc, "AUDIT_READ_FULL")
                THEN JSet2(JSet2(s2, "attributes", "before", JStr(in.before)),
                           "attributes", "after", JStr(in.after))
                ELSE s2
      IN  s3

GroupEventJSON_serialize(in, sc) ==
    GroupEventJSON_augment(AuditJSON_serialize(in, sc), in, sc)

\* The fixed tag of each built-in kind.
TypeTag(kind) ==
    CASE kind = "UserEvent" -> "audit-user-event"
      [] kind = "WSAPICall" -> "audit-wsapicall-event"
      [] kind = "ScheduleEvent" -> "audit-schedule-event"
      [] kind = "GroupEvent" -> "audit-group-event"
      [] kind = "CredentialEvent" -> "audit-credential-event"
      [] kind = "DoorEvent" -> "audit-door-event"
      [] kind = "UserGroupMembershipEvent" -> "audit-user-group-membership-event"

\* The six built-in serializers whose code is not modelled in detail:
\* the envelope with its type overwritten by the kind's tag.
OtherBuiltinJSON_serialize(in, sc) ==
    JSet(AuditJSON_serialize(in, sc), "type", JStr(TypeTag(in.kind)))

(* ------------------------ registered callables -------------------------- *)

\* boost::optional<json>
None == [some |-> FALSE, val |-> JNull]

Some(j) == [some |-> TRUE, val |-> j]

\* What a module-provided serializer does is the module's business: a
\* callable is described by the set of entry kinds it can marshal.
Callables == { {"ExtA", "GroupEvent"}, {"ExtB"} }

\* The document the callable registered in slot s produces.
ExtDoc(s, in) ==
    JObj([k \in {"type", "serializer"} |->
            IF k = "type" THEN JStr(in.kind) ELSE [t |-> "number", v |-> s]])

\* Invoking (*callable)(in, sc): empty when the callable cannot marshal in.
\* The callables modelled here do not look at the security context.
Invoke(c, s, in) == IF in.kind \in c THEN Some(ExtDoc(s, in)) ELSE None

(* ------------------------------ state ----------------------------------- *)

VARIABLES
    slots,   \* runtime_serializers_: the connection bodies, in connect order
    th,      \* per thread: where its serialize() call stands
    ret      \* what the step just taken returned to a serialize() caller

vars == << slots, th, ret >>

SlotIds == 1..MaxSlots

NoEntry == [kind |-> "none", id |-> "e1", target_id |-> "g1",
            before |-> "a1", after |-> "a1"]

IdleThread ==
    [pc |-> "idle", in |-> NoEntry, snap |-> 0, idx |-> 0, grabbed |-> 0,
     invoked |-> <<>>, late |-> {}, startDisc |-> {}, startRel |-> {},
     seen |-> {}]

NoResult == [status |-> "none", doc |-> JNull]

\* History: the registry operation the step just taken completed; was is
\* the connected flag of its slot before the step.
NoOp == [name |-> "none", slot |-> 0, was |-> FALSE]

NoRet ==
    [in |-> NoEntry, sc |-> {}, result |-> NoResult, invoked |-> <<>>,
     late |-> {}, snap |-> 0, startDisc |-> {}, startRel |-> {}, seen |-> {},
     op |-> NoOp, base |-> JNull]

\* Strong references to the callable of slot s: the module's shared_ptr and
\* the copies a dispatch took when it locked the tracked weak_ptr.
UseCount(sl, thr, s) ==
    (IF sl[s].held THEN 1 ELSE 0) + Cardinality({u \in Threads : thr[u].grabbed = s})

Expired_always(sl, thr, s) == TRUE

\* weak_ptr::expired() of the tracked callable
Expired(sl, thr, s) == UseCount(sl, thr, s) = 0

\* The slots a dispatch starting now would invoke candidates from.
Valid(sl, thr) ==
    {s \in 1..Len(sl) : sl[s].connected /\ ~ Expired(sl, thr, s)}

\* The slot whose document a sequential, uninterrupted fallback dispatch
\* over the slots in V returns for entry in; 0 when it returns absent.
SeqDispatch(sl, V, in) ==
    LET M == {s \in V : in.kind \in sl[s].callable}
    IN  IF M = {} THEN 0 ELSE CHOOSE s \in M : \A r \in M : s <= r

\* History: every in-flight call notes what a sequential dispatch over the
\* present registry would return.
Observe(thr, sl) ==
    [u \in Threads |->
        IF thr[u].pc = "idle" THEN thr[u]
        ELSE [thr[u] EXCEPT !.seen = @ \cup {SeqDispatch(sl, Valid(sl, thr), thr[u].in)}]]

HoldsMutex_whileRunning(pc) == pc = "running"

\* Does a call standing at pc hold the mutex of runtime_serializers_?  The
\* signal locks it inside connect, disconnect, the snapshot taken when it is
\* fired and lock_next_callable, each one step here, and invokes a slot's
\* callable with the mutex released.
HoldsMutex(pc) == FALSE

\* Can thread t, or a module when t is "module", take the signal's mutex?
MutexFree(thr, t) == \A u \in Threads \ {t} : ~ HoldsMutex(thr[u].pc)

Init ==
    /\ slots = <<>>
    /\ th = [t \in Threads |-> IdleThread]
    /\ ret = NoRet

(* --------------------------- the registry ------------------------------- *)

\* PolymorphicAuditJSON::register_serializer(callable): connects a slot
\* that tracks the module's shared_ptr, at the back of the list.
register_serializer(c) ==
    /\ Len(slots) < MaxSlots
    /\ MutexFree(th, "module")
    /\ slots' = Append(slots, [callable |-> c, connected |-> TRUE, held |-> TRUE])
    /\ th' = Observe(th, slots')
    /\ ret' = [NoRet EXCEPT !.op = [name |-> "register_serializer",
                                    slot |-> Len(slots'), was |-> FALSE]]

disconnect_toggle(s) ==
    /\ s \in 1..Len(slots)
    /\ MutexFree(th, "module")
    /\ slots' = [slots EXCEPT ![s].connected = ~ @]
    /\ th' = Observe(th, slots')
    /\ ret' = [NoRet EXCEPT !.op = [name |-> "disconnect", slot |-> s,
                                    was |-> slots[s].connected]]

disconnect_all(s) ==
    /\ s \in 1..Len(slots)
    /\ MutexFree(th, "module")
    /\ slots' = [r \in 1..Len(slots) |-> [slots[r] EXCEPT !.connected = FALSE]]
    /\ th' = Observe(th, slots')
    /\ ret' = [NoRet EXCEPT !.op = [name |-> "disconnect", slot |-> s,
                                    was |-> slots[s].connected]]

\* bs2::connection::disconnect() on the handle returned for slot s.
disconnect(s) ==
    /\ s \in 1..Len(slots)
    /\ MutexFree(th, "module")
    /\ slots' = [slots EXCEPT ![s].connected = FALSE]
    /\ th' = Observe(th, slots')
    /\ ret' = [NoRet EXCEPT !.op = [name |-> "disconnect", slot |-> s,
                                    was |-> slots[s].connected]]

\* The module that registered slot s is unloaded: it drops its shared_ptr.
ModuleTeardown(s) ==
    /\ s \in 1..Len(slots)
    /\ slots[s].held
    /\ slots' = [slots EXCEPT ![s].held = FALSE]
    /\ th' = Observe(th, slots')
    /\ ret' = NoRet

(* --------------------------- the dispatcher ----------------------------- *)

CanVisit_none(kind) == FALSE

CanVisit_groupMissing(kind) == kind \in BuiltinKinds \ {"GroupEvent"}

\* Tools::Visitor<T> bases of HelperSerialize: the kinds accept() can hand
\* to a visit() overload; every other entry ends in cannot_visit().
CanVisit(kind) == kind \in BuiltinKinds

\* What the caller of a built-in serializer gets: its document, the
\* exception it let through, or nothing when the process was halted.
VisitResult(j) ==
    IF j = Halted THEN [status |-> "halted", doc |-> JNull]
    ELSE IF j = Threw THEN [status |-> "threw", doc |-> JNull]
    ELSE [status |-> "ok", doc |-> j]

\* HelperSerialize::visit(const T &): result_ = <T>JSON::serialize(t, sc).
HelperSerialize_visit(in, sc) ==
    VisitResult(IF in.kind = "GroupEvent"
                THEN GroupEventJSON_serialize(in, sc)
                ELSE OtherBuiltinJSON_serialize(in, sc))

\* HelperSerialize::cannot_visit, after the signal returned: the document,
\* or the "no serializer available" failure.
HelperSerialize_cannot_visit(optional_json) ==
    IF optional_json.some
    THEN [status |-> "ok", doc |-> optional_json.val]
    ELSE [status |-> "NoMatchingSerializer", doc |-> JNull]

CombinerReturns_onAbsent(serialized) == ~ serialized.some

CombinerReturns_never(serialized) == FALSE

\* RuntimeSerializerCombiner::operator(), the loop body: return on the
\* first non-empty optional.
CombinerReturns(serialized) == serialized.some

CombinerExhausted_default == Some(JNull)

\* RuntimeSerializerCombiner::operator(), after the loop.
CombinerExhausted == None

\* What thread t's call hands back, with the history of the call.
Returned(t, result, endTh) ==
    [in |-> th[t].in, sc |-> {}, result |-> result, op |-> NoOp,
     base |-> JNull,
     invoked |-> th[t].invoked, late |-> th[t].late, snap |-> th[t].snap,
     startDisc |-> th[t].startDisc, startRel |-> th[t].startRel,
     seen |-> th[t].seen \cup {SeqDispatch(slots, Valid(slots, endTh), th[t].in)}]

\* PolymorphicAuditJSON::serialize(in, sc) is entered by thread t.  A
\* built-in entry is visited and the call returns; any other entry reaches
\* cannot_visit(), which fires the signal: the signal takes its snapshot of
\* the connection list.
serialize(t, in, sc) ==
    /\ th[t].pc = "idle"
    /\ UNCHANGED slots
    /\ CanVisit(in.kind) \/ MutexFree(th, t)
    /\ IF CanVisit(in.kind)
       THEN /\ th' = th
            /\ ret' = [NoRet EXCEPT !.in = in, !.sc = sc,
                                    !.result = HelperSerialize_visit(in, sc),
                                    !.snap = Len(slots)]
       ELSE /\ th' = [th EXCEPT ![t] =
                        [pc |-> "iter", in |-> in, snap |-> Len(slots),
                         idx |-> 1, grabbed |-> 0, invoked |-> <<>>, late |-> {},
                         startDisc |-> {s \in 1..Len(slots) : ~ slots[s].connected},
                         startRel |-> {s \in 1..Len(slots) : ~ slots[s].held},
                         seen |-> {SeqDispatch(slots, Valid(slots, th), in)}]]
            /\ ret' = NoRet

Blocked_ignored(sl, s) == FALSE

\* connection_body::nolock_nograb_blocked(): a disconnected slot is passed
\* over by the slot call iterator.
Blocked(sl, s) == ~ sl[s].connected

\* slot_call_iterator::lock_next_callable on the slot at idx (reached by
\* the combiner's first != last): drops the references taken for the
\* previous slot, locks the tracked weak_ptr, disconnects the slot when it
\* has expired, and stops on the slot when it is connected.
LockNextCallable(t) ==
    /\ th[t].pc = "iter"
    /\ th[t].idx <= th[t].snap
    /\ MutexFree(th, t)
    /\ LET s == th[t].idx
           released == [th EXCEPT ![t].grabbed = 0]
       IN  IF Expired(slots, released, s)
           THEN /\ slots' = [slots EXCEPT ![s].connected = FALSE]
                /\ th' = Observe([released EXCEPT ![t].idx = s + 1], slots')
           ELSE IF Blocked(slots, s)
           THEN /\ slots' = slots
                /\ th' = Observe([released EXCEPT ![t].idx = s + 1], slots')
           ELSE /\ slots' = slots
                /\ th' = Observe([released EXCEPT ![t].grabbed = s,
                                                  ![t].pc = "selected"], slots')
    /\ ret' = NoRet

\* The combiner dereferences the iterator: the slot's callable is entered.
\* (History: late notes a slot entered after its disconnect had completed.)
InvokeSlot(t) ==
    /\ th[t].pc = "selected"
    /\ th' = [th EXCEPT ![t].pc = "running",
                        ![t].invoked = Append(@, th[t].idx),
                        ![t].late = IF slots[th[t].idx].connected
                                    THEN @ ELSE @ \cup {th[t].idx}]
    /\ UNCHANGED slots
    /\ ret' = NoRet

\* The callable returns.  A non-empty optional ends the combiner, the
\* signal and serialize(); an empty one moves the combiner to ++first.
SlotReturn(t) ==
    /\ th[t].pc = "running"
    /\ LET s == th[t].idx
           serialized == Invoke(slots[s].callable, s, th[t].in)
           after == [th EXCEPT ![t] = IdleThread]
       IN  IF CombinerReturns(serialized)
           THEN /\ th' = Observe(after, slots)
                /\ ret' = Returned(t, HelperSerialize_cannot_visit(serialized), after)
           ELSE /\ th' = [th EXCEPT ![t].pc = "iter", ![t].idx = s + 1]
                /\ ret' = NoRet
    /\ UNCHANGED slots

CombinerEnd_never(t) == FALSE /\ UNCHANGED vars

\* first == last: the combiner falls out of its loop, the signal returns
\* and cannot_visit() sees the combiner's value.
CombinerEnd(t) ==
    /\ th[t].pc = "iter"
    /\ th[t].idx > th[t].snap
    /\ LET after == [th EXCEPT ![t] = IdleThread]
       IN  /\ th' = Observe(after, slots)
           /\ ret' = Returned(t, HelperSerialize_cannot_visit(CombinerExhausted), after)
    /\ UNCHANGED slots

\* The calls made while two threads serialize concurrently.
ConcurrentCalls ==
    { c \in Entries \X SecurityContexts :
        /\ c[2] = {}
        /\ c[1].kind \in {"ExtA", "GroupEvent"}
        /\ c[1].kind = "GroupEvent" =>
              c[1].target_id = "g1" /\ c[1].before = "a1" /\ c[1].after = "a2" }

Registry ==
    \/ \E c \in Callables : register_serializer(c)
    \/ \E s \in SlotIds : disconnect(s)
    \/ \E s \in SlotIds : ModuleTeardown(s)

Dispatch(t) ==
    \/ LockNextCallable(t)
    \/ InvokeSlot(t)
    \/ SlotReturn(t)
    \/ CombinerEnd(t)

\* Two threads serialize while modules come and go.
Next ==
    \/ Registry
    \/ \E t \in Threads, c \in ConcurrentCalls : serialize(t, c[1], c[2])
    \/ \E t \in Threads : Dispatch(t)

Spec == Init /\ [][Next]_vars

\* One thread serializes every kind of entry while modules come and go.
NextOne ==
    \/ Registry
    \/ \E in \in Entries, sc \in SecurityContexts : serialize("t1", in, sc)
    \/ Dispatch("t1")

SpecOne == Init /\ [][NextOne]_vars

\* The thread inside serialize() keeps running: its call is synchronous,
\* waits for nothing but the signal's mutex, and every callable it enters
\* returns.
SpecOneFair == SpecOne /\ WF_vars(Dispatch("t1"))

\* GroupEventJSON::serialize from line 35 on, run on an envelope of the
\* given shape.
SerializeEnvelope(shape, in, sc) ==
    /\ ret' = [NoRet EXCEPT
                 !.in = in, !.sc = sc, !.base = Envelope(shape, in, sc),
                 !.result = VisitResult(
                     GroupEventJSON_augment(Envelope(shape, in, sc), in, sc))]
    /\ UNCHANGED << slots, th >>

NextEnvelope ==
    \E shape \in TypeShapes, in \in GroupEvents, sc \in SecurityContexts :
        SerializeEnvelope(shape, in, sc)

\* The group-event serializer on every shape of envelope.
SpecEnvelope == Init /\ [][NextEnvelope]_vars

(* ------------------------------ claims ---------------------------------- *)

Range(q) == {q[i] : i \in 1..Len(q)}

\* The step just taken returned from a serialize() that went through the
\* fallback chain.
FallbackReturned == ret.in.kind \in ExtensionKinds

\* The step just taken returned from a serialize() of a built-in entry.
BuiltinReturned == ret.in.kind \in BuiltinKinds

\* Would the callable of slot s return a document for entry in?
Accepts(s, in) == Invoke(slots[s].callable, s, in).some

\* The slot whose document a returned call carries; 0 when it carries none.
Winner(r) ==
    IF r.result.status = "ok" /\ JHas(r.result.doc, "serializer")
    THEN r.result.doc.v["serializer"].v ELSE 0

\* C1: a slot whose connection was disconnected before a serialize() call
\* began is never invoked by that call; the call returns the document of a
\* later candidate that was not disconnected, or NoMatchingSerializer when
\* no slot that was still connected at its start accepts the entry.
C1_DisconnectedNeverInvoked ==
    /\ \A t \in Threads : Range(th[t].invoked) \cap th[t].startDisc = {}
    /\ FallbackReturned =>
         /\ Range(ret.invoked) \cap ret.startDisc = {}
         /\ \/ /\ ret.result.status = "ok"
               /\ Winner(ret) \in (1..ret.snap) \ ret.startDisc
               /\ ret.result.doc = ExtDoc(Winner(ret), ret.in)
            \/ ret.result.status = "NoMatchingSerializer"
         /\ (\A s \in (1..ret.snap) \ ret.startDisc : ~ Accepts(s, ret.in))
               => ret.result.status = "NoMatchingSerializer"

\* A call skipped a disconnected slot that accepts the entry and returned
\* the document of the next candidate.
C1_Witness ==
    /\ FallbackReturned
    /\ ret.result.status = "ok"
    /\ \E d \in ret.startDisc : d < Winner(ret) /\ Accepts(d, ret.in)

\* A call found only a disconnected slot accepting its entry and reported
\* NoMatchingSerializer.
C1_WitnessNoMatch ==
    /\ FallbackReturned
    /\ ret.result.status = "NoMatchingSerializer"
    /\ \E d \in ret.startDisc : Accepts(d, ret.in)

\* C2: a serialize() call never invokes the callable of a slot whose module
\* had released its shared handle before the call began.
C2_ReleasedNeverInvoked ==
    \A t \in Threads : Range(th[t].invoked) \cap th[t].startRel = {}

\* C3: no callable is invoked after its disconnect has completed, and the
\* result of every serialize() equals a sequential fallback dispatch over
\* the registry as it stood at one moment between the call's start and end.
C3_NoLateInvocation ==
    /\ \A t \in Threads : th[t].late = {}
    /\ FallbackReturned => ret.late = {}

C3_ResultFromOneSnapshot == FallbackReturned => Winner(ret) \in ret.seen

C3_ConcurrentSnapshot == C3_NoLateInvocation /\ C3_ResultFromOneSnapshot

\* C4: fallback dispatch returns the document of the earliest-registered
\* connected callable whose result is non-absent: every callable invoked
\* before the returned one returned absent, every connected slot before it
\* was invoked, and the call reports no document exactly when every
\* callable it invoked returned absent and none was left out.
C4_FirstNonAbsent ==
    FallbackReturned =>
       LET inv == ret.invoked
           w == Winner(ret)
           reach == IF w = 0 THEN ret.snap ELSE w
       IN  /\ \A i, j \in 1..Len(inv) : i < j => inv[i] < inv[j]
           /\ \A s \in 1..reach : s \in Range(inv) \/ ~ slots[s].connected
           /\ \A s \in Range(inv) : s <= reach
           /\ IF \E s \in Range(inv) : Accepts(s, ret.in)
              THEN /\ ret.result.status = "ok"
                   /\ w \in Range(inv)
                   /\ \A s \in Range(inv) : Accepts(s, ret.in) => w <= s
                   /\ ret.result.doc = Invoke(slots[w].callable, w, ret.in).val
              ELSE /\ ret.result.status = "NoMatchingSerializer"
                   /\ w = 0

\* Callable A was invoked and returned absent, B was invoked next and its
\* document is what the dispatch returned.
C4_Witness ==
    /\ FallbackReturned
    /\ Len(ret.invoked) = 2
    /\ ~ Accepts(ret.invoked[1], ret.in)
    /\ Winner(ret) = ret.invoked[2]

\* C5: within one dispatch no callable is invoked once an earlier one has
\* returned a document: only the last callable invoked can have returned
\* one, and the dispatch returns that document alone.
C5_ShortCircuit ==
    /\ \A t \in Threads : \A i \in 1..Len(th[t].invoked) :
          (i < Len(th[t].invoked) \/ th[t].pc = "iter")
             => ~ Accepts(th[t].invoked[i], th[t].in)
    /\ FallbackReturned =>
          /\ \A i \in 1..(Len(ret.invoked) - 1) : ~ Accepts(ret.invoked[i], ret.in)
          /\ ret.result.status = "ok" =>
               /\ Len(ret.invoked) > 0
               /\ Winner(ret) = ret.invoked[Len(ret.invoked)]
               /\ ret.result.doc = ExtDoc(Winner(ret), ret.in)

\* A dispatch returned A's document while B, registered after A, connected
\* and accepting the same entry, was not invoked.
C5_Witness ==
    /\ FallbackReturned
    /\ ret.result.status = "ok"
    /\ \E b \in 1..ret.snap :
          /\ b > Winner(ret)
          /\ slots[b].connected /\ slots[b].held
          /\ Accepts(b, ret.in)
          /\ b \notin Range(ret.invoked)

\* C6: a built-in entry is serialized by its kind's built-in serializer
\* and no registered callable is invoked for it, whatever the registry
\* holds: no dispatch is ever in flight for a built-in entry, and the call
\* returns the built-in document, not a callable's.
C6_BuiltinPrecedence ==
    /\ \A t \in Threads : th[t].in.kind \notin BuiltinKinds
    /\ BuiltinReturned =>
         /\ ret.invoked = <<>>
         /\ ret.result.status = "ok"
         /\ ~ JHas(ret.result.doc, "serializer")
         /\ JGet(ret.result.doc, "type") = JStr(TypeTag(ret.in.kind))
         /\ JHas(ret.result.doc, "id")

\* A group event was serialized while a connected, live callable that
\* would return a document for it was registered.
C6_Witness ==
    /\ BuiltinReturned
    /\ ret.in.kind = "GroupEvent"
    /\ \E s \in 1..Len(slots) :
          slots[s].connected /\ slots[s].held /\ Accepts(s, ret.in)

\* C7: a serialize() of an extension entry for which no callable returned a
\* document reports NoMatchingSerializer; a call that reports success
\* carries the document of a callable it invoked, never a null or empty one.
C7_NoMatchReported ==
    FallbackReturned =>
       /\ (\A s \in Range(ret.invoked) : ~ Accepts(s, ret.in))
             => ret.result.status = "NoMatchingSerializer"
       /\ ret.result.status \in {"ok", "NoMatchingSerializer"}
       /\ ret.result.status = "ok" =>
             /\ ret.result.doc \notin {JNull, EmptyObj}
             /\ \E s \in Range(ret.invoked) :
                   Accepts(s, ret.in) /\ ret.result.doc = ExtDoc(s, ret.in)

\* A callable was registered and invoked, returned absent, and serialize()
\* reported NoMatchingSerializer.
C7_Witness ==
    /\ FallbackReturned
    /\ ret.invoked # <<>>
    /\ ret.result.status = "NoMatchingSerializer"

\* serialize() reported NoMatchingSerializer on an empty registry.
C7_WitnessEmpty ==
    /\ FallbackReturned
    /\ ret.snap = 0
    /\ ret.result.status = "NoMatchingSerializer"

\* The step just taken returned the document of a group event.
GroupReturned == ret.in.kind = "GroupEvent" /\ ret.result.status = "ok"

\* C8: the group-event document has attributes.before and attributes.after
\* equal to the event's before() and after() exactly when the security
\* context grants AUDIT_READ_FULL, has neither key otherwise, and has type
\* "audit-group-event" in both cases.
C8_PermissionRedaction ==
    GroupReturned =>
       LET attributes == JGet(ret.result.doc, "attributes")
       IN  /\ JGet(ret.result.doc, "type") = JStr("audit-group-event")
           /\ IF check_permission(ret.sc, "AUDIT_READ_FULL")
              THEN /\ JHas(attributes, "before")
                   /\ JHas(attributes, "after")
                   /\ attributes.v["before"] = JStr(ret.in.before)
                   /\ attributes.v["after"] = JStr(ret.in.after)
              ELSE /\ ~ JHas(attributes, "before")
                   /\ ~ JHas(attributes, "after")

\* A group event with differing snapshots was serialized without the
\* permission.
C8_Witness ==
    /\ GroupReturned
    /\ ~ check_permission(ret.sc, "AUDIT_READ_FULL")
    /\ ret.in.before # ret.in.after

\* A group event with differing snapshots was serialized with the
\* permission.
C8_WitnessGranted ==
    /\ GroupReturned
    /\ check_permission(ret.sc, "AUDIT_READ_FULL")
    /\ ret.in.before # ret.in.after

\* C9: relationships.target of a group-event document is the mapping
\* {id: target_id, type: "group"}, with exactly these two keys.
C9_TargetIsMapping ==
    GroupReturned =>
       LET target == JGet(JGet(ret.result.doc, "relationships"), "target")
       IN  /\ is_object(target)
           /\ DOMAIN target.v = {"id", "type"}
           /\ target.v["id"] = JStr(ret.in.target_id)
           /\ target.v["type"] = JStr("group")

\* What the code writes: a one-element list holding that mapping.
C9_TargetIsListOfMapping ==
    GroupReturned =>
       LET target == JGet(JGet(ret.result.doc, "relationships"), "target")
       IN  /\ is_array(target)
           /\ Len(target.v) = 1
           /\ is_object(target.v[1])
           /\ DOMAIN target.v[1].v = {"id", "type"}
           /\ target.v[1].v["id"] = JStr(ret.in.target_id)
           /\ target.v[1].v["type"] = JStr("group")

\* C10: the document serialize() returns for a built-in entry has a type
\* that is a non-empty string equal to the kind's tag, not the base
\* serializer's provisional type.
C10_TypeTagged ==
    BuiltinReturned =>
       /\ ret.result.status = "ok"
       /\ JHas(ret.result.doc, "type")
       /\ is_string(ret.result.doc.v["type"])
       /\ ret.result.doc.v["type"].v # ""
       /\ ret.result.doc.v["type"].v = TypeTag(ret.in.kind)
       /\ ret.result.doc.v["type"].v # GenericType

\* A group event was serialized.
C10_Witness == GroupReturned /\ ret.result.doc.v["type"] = JStr("audit-group-event")

\* The documents produced for the call that just returned: one when the
\* built-in visit succeeded, and one per invoked callable that accepted.
C11_DocumentsProduced ==
    (IF CanVisit(ret.in.kind) /\ ret.result.status = "ok" /\ Winner(ret) = 0
     THEN 1 ELSE 0)
    + Cardinality({i \in 1..Len(ret.invoked) : Accepts(ret.invoked[i], ret.in)})

\* C11: in every serialize() call at most one of the two paths (built-in
\* visit, fallback chain) produces a document: a built-in entry never fires
\* the chain, an extension entry never gets a built-in document, and at most
\* one document is produced and returned for the entry.
C11_AtMostOnePath ==
    /\ \A t \in Threads : th[t].pc # "idle" => ~ CanVisit(th[t].in.kind)
    /\ BuiltinReturned => ret.invoked = <<>> /\ Winner(ret) = 0
    /\ FallbackReturned =>
          (ret.result.status = "ok" => ret.result.doc = ExtDoc(Winner(ret), ret.in))
    /\ C11_DocumentsProduced <= 1
    /\ ret.result.status = "ok" <=> C11_DocumentsProduced = 1

\* A built-in entry was serialized by its built-in serializer while a
\* connected, live callable that accepts it was second in the chain.
C11_Witness ==
    /\ BuiltinReturned
    /\ ret.result.status = "ok"
    /\ Len(slots) = 2
    /\ ~ Accepts(1, ret.in)
    /\ Accepts(2, ret.in) /\ slots[2].connected /\ slots[2].held

\* C12: in every reachable state, also while a dispatch is invoking the
\* callable, a registered callable that is still alive is kept alive by its
\* module's handle: the registry's side (the slot, and the references its
\* dispatches take) never holds the last strong reference.
C12_RegistryNeverLastHolder ==
    \A s \in 1..Len(slots) : UseCount(slots, th, s) > 0 => slots[s].held

C13_WitnessRegister ==
    \E t \in Threads :
        /\ th[t].pc = "running"
        /\ ret.op.name = "register_serializer"

\* The envelope handed to the group-event serializer has a type member
\* that is not a string.
C14_TypeNotString == JHas(ret.base, "type") /\ ~ is_string(ret.base.v["type"])

\* C14: when the base serializer's envelope has a type member that is not
\* a string, the group-event serializer halts on its assertion: nothing is
\* written to type, relationships or attributes and the caller gets no
\* document.
C14_AssertionBeforeWrites ==
    C14_TypeNotString => ret.result = [status |-> "halted", doc |-> JNull]

\* The serializer was run on an envelope whose type is a number.
C14_Witness ==
    /\ C14_TypeNotString
    /\ ret.base.v["type"].t = "number"
    /\ ret.in.kind = "GroupEvent"
    /\ ret.result.status = "halted"

\* C15: every serialize() call of the serializing thread that has fired
\* the fallback chain finishes, handing its caller a document or the
\* NoMatchingSerializer failure, whatever registrations, disconnects and
\* teardowns happen meanwhile (a built-in call finishes within its own
\* step).
C15_SerializeFinishes ==
    (th["t1"].pc # "idle") ~>
        /\ th["t1"].pc = "idle"
        /\ FallbackReturned
        /\ ret.result.status \in {"ok", "NoMatchingSerializer"}

\* A call finished although the registry changed under it: what a dispatch
\* would return changed while the call was in flight.
C15_Witness ==
    /\ FallbackReturned
    /\ ret.result.status \in {"ok", "NoMatchingSerializer"}
    /\ Cardinality(ret.seen) >= 2
    /\ ret.invoked # <<>>

\* The group events that agree with e on everything but their before()
\* and after() snapshots.
C16_SameButSnapshots(e) ==
    {f \in GroupEvents : f.id = e.id /\ f.target_id = e.target_id}

\* C16: when the security context denies AUDIT_READ_FULL, the document
\* returned for a group event is the document serialize() returns for every
\* group event that differs from it in its before() and after() snapshots
\* only.
C16_SnapshotsDoNotFlow ==
    (GroupReturned /\ ~ check_permission(ret.sc, "AUDIT_READ_FULL")) =>
        \A f \in C16_SameButSnapshots(ret.in) :
            HelperSerialize_visit(f, ret.sc) = ret.result

\* A group event whose snapshots differ from each other, and from those of
\* other events with the same target, was serialized without the permission.
C16_Witness ==
    /\ GroupReturned
    /\ ~ check_permission(ret.sc, "AUDIT_READ_FULL")
    /\ ret.in.before = "a2" /\ ret.in.after = "a1"
    /\ Cardinality(C16_SameButSnapshots(ret.in)) = 4

C18_DisconnectIdempotent ==
    [][\A s \in SlotIds \cap {ret'.op.slot} :
          disconnect(s) =>
             /\ ~ slots[s].connected => slots' = slots
             /\ Expired(slots, th, s) => Valid(slots', th') = Valid(slots, th)
             /\ ret.op = [name |-> "disconnect", slot |-> s, was |-> TRUE]
                   => slots' = slots
             /\ \A r \in (1..Len(slots)) \ {s} : slots'[r] = slots[r]]_vars

\* A handle was disconnected a second time, right after its first
\* disconnect, while another registration is connected and alive.
C18_Witness ==
    /\ ret.op.name = "disconnect"
    /\ ~ ret.op.was
    /\ slots[ret.op.slot].held
    /\ Valid(slots, th) # {}

\* The handle of a callable that expired with its module was disconnected
\* while another registration is connected and alive.
C18_WitnessTeardown ==
    /\ ret.op.name = "disconnect"
    /\ ret.op.was
    /\ Expired(slots, th, ret.op.slot)
    /\ Valid(slots, th) # {}

\* The connected registrations whose module still holds its callable, each
\* with its place in the list and its callable.
C19_Live(sl) ==
    [s \in {r \in 1..Len(sl) : sl[r].connected /\ sl[r].held} |-> sl[s].callable]

\* C19: no step of a serialize() call, on the built-in path or anywhere in
\* the fallback chain up to its return, registers a slot or changes the
\* connected registrations whose module still holds its callable, or their
\* order: a step either leaves them as they were or is no step of a call.
C19_DispatchFrame ==
    [][\/ /\ Len(slots') = Len(slots)
          /\ C19_Live(slots') = C19_Live(slots)
       \/ \A t \in Threads :
             /\ ~ Dispatch(t)
             /\ \A in \in Entries, sc \in SecurityContexts : ~ serialize(t, in, sc)]_vars

\* A call ended with no match after invoking two connected, live callables,
\* which are still registered.
C19_Witness ==
    /\ FallbackReturned
    /\ ret.result.status = "NoMatchingSerializer"
    /\ ret.invoked = << 1, 2 >>
    /\ DOMAIN C19_Live(slots) = {1, 2}

\* A call succeeded through the chain after its dispatch had disconnected
\* an expired slot; the callable that answered is still registered.
C19_WitnessFallback ==
    /\ FallbackReturned
    /\ ret.result.status = "ok"
    /\ ret.invoked = << 2 >>
    /\ DOMAIN C19_Live(slots) = {2}
    /\ 1 \notin ret.startDisc /\ ~ slots[1].connected

\* A built-in call returned with two connected, live callables registered.
C19_WitnessBuiltin ==
    /\ BuiltinReturned
    /\ ret.result.status = "ok"
    /\ DOMAIN C19_Live(slots) = {1, 2}

====
